---- MODULE Spec2Model ----
(***************************************************************************)
(* solana-agent-mesh: the off-chain API server (app/src/index.ts), the     *)
(* MeshController (app/src/mesh-controller.ts) and the ExecutionAgent of   *)
(* the README's agents source, as one state machine.                       *)
(***************************************************************************)
EXTENDS Integers, Sequences, FiniteSets, TLC

VARIABLES
    agents,         \* index.ts: const agents        (id -> agent record)
    modelProfiles,  \* index.ts: const modelProfiles (id -> profile record)
    intents,        \* index.ts: const intents       (id -> intent record)
    now,            \* the clock read by Date.now() / new Date()
    clients,        \* per caller: the PUT /api/intents/:id/status request it has in flight, or its response
    last,           \* the response of the last POST /api/intents
    llmProviders,   \* MeshController.llmProviders (profile keys with a registered backend)
    proc,           \* the MeshController.processIntent invocation in progress
    llmCalls,       \* number of LLMProvider.call invocations made (the backend's call count)
    act,            \* the last executeAction / executeRecommendation call and its outcome
    extCalls,       \* number of external venue calls made (JupiterClient.getQuote)
    reg,            \* the last request to the agent / model-profile registry and its response
    pda,            \* the seeds of the last MeshController.getIntentPDA derivation
    timers,         \* the intervals set by subscribeToIntents (timer id -> its state)
    run             \* the ExecutionAgent.processIntent invocation in progress

vars == <<agents, modelProfiles, intents, now, clients, last, llmProviders, proc, llmCalls, act, extCalls,
          reg, pda, timers, run>>

----------------------------------------------------------------------------
(* Bounds of the model *)

MaxIntents == 2      \* intents created in one run
MaxClock == 1        \* clock readings 0..MaxClock
MaxLlmCalls == 2     \* backend calls counted in one run
MaxExtCalls == 2     \* venue calls counted in one run
MaxProfiles == 1     \* model profiles created through POST /api/model-profiles
MaxNonce == 300      \* nonces 0..MaxNonce handed to getIntentPDA
MaxTimers == 3       \* subscribeToIntents calls in one run
MaxScanning == 2     \* scans of one subscription awaited at once
MaxRecs == 2         \* recommendations in one intent payload

----------------------------------------------------------------------------
(* Permission flags, mesh-controller.ts:17-23 *)

CAN_SWAP == 1
CAN_TRANSFER == 2
CAN_VOTE == 4
CAN_CREATE_INTENT == 8
CAN_ACCEPT_INTENT == 16

\* (mask & flag) != 0 for a one-bit flag
HasFlag(mask, flag) == (mask \div flag) % 2 = 1

----------------------------------------------------------------------------
(* JavaScript values that reach the handlers *)

Undefined == "<undefined>"          \* a string-typed field missing from the request body
UndefinedValue == [kind |-> "undefined"]
Null == [kind |-> "null"]
Str(s) == [kind |-> "str", s |-> s]
Obj(pairs) == [kind |-> "obj", pairs |-> pairs]   \* pairs: <<key, value>> in insertion order

\* !x for a string-typed field
FalsyStr(s) == s = Undefined \/ s = ""
\* !x for a structured value: undefined, null and "" are falsy, every object is truthy
Falsy(v) == v.kind \in {"undefined", "null"} \/ (v.kind = "str" /\ v.s = "")

\* JSON.stringify: an object is written key by key in insertion order
RECURSIVE PairTokens(_)
PairTokens(pairs) ==
    IF pairs = <<>> THEN <<>>
    ELSE <<pairs[1][1], ":", pairs[1][2]>>
         \o (IF Len(pairs) > 1 THEN <<",">> ELSE <<>>)
         \o PairTokens(Tail(pairs))

JsonStringify(v) ==
    CASE v.kind = "obj" -> <<"{">> \o PairTokens(v.pairs) \o <<"}">>
      [] v.kind = "str" -> <<"\"", v.s, "\"">>
      [] v.kind = "null" -> <<"null">>
      [] OTHER -> <<>>

\* The characters the modelled strings are made of, each with a code
Tokens == <<"{", "}", ":", ",", "\"", "null", "action", "amount", "swap", "1", "2",
            "ok", "err", "input", "output", "timestamp", "0">>
TokenCode(t) == CHOOSE i \in 1..Len(Tokens) : Tokens[i] = t

\* SHA-256: a fixed-width function of the byte string (a polynomial hash modulo a
\* prime, collision-free on the strings of the model, see DigestCollisionFree)
RECURSIVE Sha256(_)
Sha256(s) == IF s = <<>> THEN 7 ELSE (Sha256(Tail(s)) * 31 + TokenCode(Head(s))) % 67108859

\* .digest('hex') is the digest as a hex string, .digest() the digest as raw bytes
DigestHex(s) == <<"hex", Sha256(s)>>
DigestBytes(s) == <<"bytes", Sha256(s)>>
NullHash == <<"null">>

\* Buffer.from(x): raw bytes stay raw bytes; a string is read as its UTF-8 characters
BufferFrom(h) == IF h[1] = "hex" THEN <<"utf8", h[2]>> ELSE h

----------------------------------------------------------------------------
(* Request inputs *)

ResearchAgent == "research-agent-1"
ExecutionAgentId == "execution-agent-1"
AgentIds == {ResearchAgent, ExecutionAgentId}

SwapOne == Obj(<< <<"action", "swap">>, <<"amount", "1">> >>)
SwapOneReordered == Obj(<< <<"amount", "1">>, <<"action", "swap">> >>)
SwapTwo == Obj(<< <<"action", "swap">>, <<"amount", "2">> >>)
EmptyObject == Obj(<<>>)
Bodies == {SwapOne, SwapOneReordered, SwapTwo, EmptyObject}

Statuses == {"pending", "accepted", "completed", "failed"}
Terminal == {"completed", "failed"}
StatusInputs == Statuses \cup {"archived", Undefined}
ResultInputs == {UndefinedValue, Str("ok")}

UsdcMint == "EPjFWdd5AufqSSqeM2qN1xzybapC8G4wEGGkZwyTDt1v"
NoTime == 0 - 1

IntentIds == 1..MaxIntents

----------------------------------------------------------------------------
(* The registry and the intent store, index.ts *)

\* The mask the registry holds for an agent id (no record, no capability)
PermOf(a) == IF a \in DOMAIN agents THEN agents[a].permissions ELSE 0

\* POST /api/demo/setup
DemoSetup ==
    /\ agents' =
         (ResearchAgent :>
            [id |-> ResearchAgent, ownerWallet |-> "Demo1", agentWallet |-> "ResearchWallet1",
             modelProfile |-> "cheap-llm-profile", metadataUri |-> "research.json",
             permissions |-> 8, createdAt |-> now])
         @@ (ExecutionAgentId :>
            [id |-> ExecutionAgentId, ownerWallet |-> "Demo1", agentWallet |-> "ExecutionWallet1",
             modelProfile |-> "high-accuracy-profile", metadataUri |-> "execution.json",
             permissions |-> 19, createdAt |-> now])
         @@ agents
    /\ modelProfiles' =
         ("cheap-llm-profile" :>
            [id |-> "cheap-llm-profile", ownerWallet |-> "Demo1", label |-> "cheap-llm",
             providerUri |-> "gateway/cheap", pricing |-> 100, billingWallet |-> "Billing1",
             maxTokensPerDay |-> 10000000, maxRequestsPerMin |-> 100, createdAt |-> now])
         @@ ("high-accuracy-profile" :>
            [id |-> "high-accuracy-profile", ownerWallet |-> "Demo1", label |-> "high-accuracy-llm",
             providerUri |-> "gateway/accurate", pricing |-> 1000, billingWallet |-> "Billing1",
             maxTokensPerDay |-> 1000000, maxRequestsPerMin |-> 30, createdAt |-> now])
         @@ modelProfiles
    /\ UNCHANGED <<intents, now, clients, last, llmProviders, proc, llmCalls, act, extCalls, reg, pda, timers, run>>

\* A key that is not fresh: the key of an intent already stored, when there is one
NewIntentIdReused == IF DOMAIN intents = {} THEN 1 ELSE CHOOSE id \in DOMAIN intents : TRUE

\* crypto.randomUUID(): an id no stored intent has
NewIntentId == CHOOSE id \in IntentIds : id \notin DOMAIN intents /\ \A j \in IntentIds : j < id => j \in DOMAIN intents

\* The record built with a digest taken of something other than the body stored
NewIntentDigestOfNothing(id, fromAgent, toAgent, payload, paymentAmount, paymentMint) ==
    [id |-> id,
     fromAgent |-> fromAgent,
     toAgent |-> toAgent,
     nonce |-> now,
     status |-> "pending",
     payloadHash |-> DigestHex(JsonStringify(EmptyObject)),
     payloadUri |-> <<"payloads", id>>,
     payload |-> payload,
     paymentAmount |-> paymentAmount,
     paymentMint |-> IF FalsyStr(paymentMint) THEN UsdcMint ELSE paymentMint,
     resultHash |-> NullHash,
     resultUri |-> <<"null">>,
     result |-> Null,
     createdAt |-> now,
     updatedAt |-> NoTime]

\* The record built by POST /api/intents
NewIntent(id, fromAgent, toAgent, payload, paymentAmount, paymentMint) ==
    [id |-> id,
     fromAgent |-> fromAgent,
     toAgent |-> toAgent,
     nonce |-> now,
     status |-> "pending",
     payloadHash |-> DigestHex(JsonStringify(payload)),
     payloadUri |-> <<"payloads", id>>,
     payload |-> payload,
     paymentAmount |-> paymentAmount,
     paymentMint |-> IF FalsyStr(paymentMint) THEN UsdcMint ELSE paymentMint,
     resultHash |-> NullHash,
     resultUri |-> <<"null">>,
     result |-> Null,
     createdAt |-> now,
     updatedAt |-> NoTime]

\* POST /api/intents. paymentAmount 0 stands for a missing amount as well (both store
\* 0); the response names the created intent, 0 when none was created
PostIntent(fromAgent, toAgent, payload, paymentAmount, paymentMint) ==
    /\ IF FalsyStr(fromAgent) \/ FalsyStr(toAgent) \/ Falsy(payload)
       THEN /\ last' = [code |-> 400, fromAgent |-> fromAgent, id |-> 0]
            /\ UNCHANGED intents
       ELSE /\ Cardinality(DOMAIN intents) < MaxIntents
            /\ intents' = (NewIntentId :> NewIntent(NewIntentId, fromAgent, toAgent, payload,
                                                     paymentAmount, paymentMint)) @@ intents
            /\ last' = [code |-> 201, fromAgent |-> fromAgent, id |-> NewIntentId]
    /\ UNCHANGED <<agents, modelProfiles, now, clients, llmProviders, proc, llmCalls, act, extCalls, reg, pda, timers, run>>

\* The record rebuilt from the request: the payment amount falls back to its default
StatusUpdatedRebuilt(intent, status, result) ==
    [intent EXCEPT !.status = status, !.updatedAt = now, !.paymentAmount = 0,
                   !.result = IF Falsy(result) THEN intent.result ELSE result]

\* The record after PUT /api/intents/:id/status has run on it
StatusUpdated(intent, status, result) ==
    LET withStatus == [intent EXCEPT !.status = status, !.updatedAt = now]
    IN  IF Falsy(result) THEN withStatus
        ELSE [withStatus EXCEPT !.result = result,
                                !.resultHash = DigestHex(JsonStringify(result)),
                                !.resultUri = <<"results", intent.id>>]

\* The HTTP status code PUT /api/intents/:id/status answers with
StatusCode(id, status) ==
    IF id \notin DOMAIN intents THEN 404
    ELSE IF FalsyStr(status) THEN 400
    ELSE 200

\* A caller's slot (id 0: no intent)
Idle == [pc |-> "idle", id |-> 0, status |-> Undefined, result |-> UndefinedValue,
         fresh |-> FALSE, code |-> 0, answered |-> Undefined]

\* An intent nobody has transitioned yet
Fresh(id) == id \in DOMAIN intents /\ intents[id].status = "pending" /\ intents[id].updatedAt = NoTime

\* Caller c issues PUT /api/intents/:id/status {status, result}; the request is in flight
SendStatus(c, id, status, result) ==
    /\ clients[c].pc # "sent"
    /\ clients' = [clients EXCEPT ![c] =
                      [pc |-> "sent", id |-> id, status |-> status, result |-> result,
                       fresh |-> Fresh(id), code |-> 0, answered |-> Undefined]]
    /\ UNCHANGED <<agents, modelProfiles, intents, now, last, llmProviders, proc, llmCalls, act, extCalls, reg, pda, timers, run>>

\* The server runs the PUT /api/intents/:id/status handler on c's request (the handler
\* awaits nothing, so it runs to its response in one step)
HandleStatus(c) ==
    /\ clients[c].pc = "sent"
    /\ LET r == clients[c]
           code == StatusCode(r.id, r.status)
       IN  /\ intents' = IF code = 200
                         THEN [intents EXCEPT ![r.id] = StatusUpdated(intents[r.id], r.status, r.result)]
                         ELSE intents
           /\ clients' = [clients EXCEPT ![c] =
                             [r EXCEPT !.pc = "done", !.code = code, !.result = UndefinedValue,
                                       !.answered = IF code = 200 THEN r.status ELSE Undefined]]
    /\ UNCHANGED <<agents, modelProfiles, now, last, llmProviders, proc, llmCalls, act, extCalls, reg, pda, timers, run>>

\* Time passes
Tick ==
    /\ now < MaxClock
    /\ now' = now + 1
    /\ UNCHANGED <<agents, modelProfiles, intents, clients, last, llmProviders, proc, llmCalls, act, extCalls, reg, pda, timers, run>>

----------------------------------------------------------------------------
(* MeshController, mesh-controller.ts *)

ProfileKeys == {"cheap-llm-profile", "high-accuracy-profile"}

\* The IntentData view of a stored intent: status as the IntentStatus member, the
\* payload hash as the 32 raw bytes
StatusName(status) ==
    CASE status = "pending" -> "Pending"
      [] status = "accepted" -> "Accepted"
      [] status = "completed" -> "Completed"
      [] status = "failed" -> "Failed"
      [] OTHER -> "Unknown"

ToIntentData(intent) ==
    [fromAgent |-> intent.fromAgent, toAgent |-> intent.toAgent, nonce |-> intent.nonce,
     status |-> StatusName(intent.status), payloadHash |-> <<"bytes", intent.payloadHash[2]>>,
     payloadUri |-> intent.payloadUri, paymentAmount |-> intent.paymentAmount]

NoResult == [hash |-> NullHash, uri |-> <<"null">>]
IdleProc == [pc |-> "idle", id |-> 0, intent |-> Null, profile |-> Undefined,
             payload |-> UndefinedValue, outcome |-> Undefined, result |-> NoResult, calls |-> 0]

\* registerLLMProvider(profilePubkey, provider)
RegisterLLMProvider(profile) ==
    /\ llmProviders' = llmProviders \cup {profile}
    /\ UNCHANGED <<agents, modelProfiles, intents, now, clients, last, proc, llmCalls, act, extCalls, reg, pda, timers, run>>

\* processIntent(intent, agentConfig) is called: axios.get(intent.payloadUri) is issued
ProcessIntentCall(id, profile) ==
    /\ proc.pc \in {"idle", "done"}
    /\ id \in DOMAIN intents
    /\ proc' = [IdleProc EXCEPT !.pc = "fetch", !.id = id, !.intent = ToIntentData(intents[id]),
                                !.profile = profile]
    /\ UNCHANGED <<agents, modelProfiles, intents, now, clients, last, llmProviders, llmCalls, act, extCalls, reg, pda, timers, run>>

\* The verification left out: every fetched body is taken as genuine
HashEqualsSkipped(computedHash, payloadHash) == TRUE

\* computedHash.equals(Buffer.from(intent.payloadHash))
HashEquals(computedHash, payloadHash) == computedHash = BufferFrom(payloadHash)

\* The lookup left out: a provider is taken to be there
ProviderAssumed(profile) == TRUE

\* llmProviders.get(agentConfig.modelProfile.toBase58()) finds a provider
ProviderConfigured(profile) == profile \in llmProviders

\* The payload arrives: the hash is verified, the provider looked up, the LLM called
ProcessIntentFetched(body) ==
    /\ proc.pc = "fetch"
    /\ IF ~HashEquals(DigestBytes(JsonStringify(body)), proc.intent.payloadHash)
       THEN /\ proc' = [proc EXCEPT !.pc = "done", !.payload = body, !.outcome = "Payload hash mismatch"]
            /\ UNCHANGED llmCalls
       ELSE IF ~ProviderConfigured(proc.profile)
       THEN /\ proc' = [proc EXCEPT !.pc = "done", !.payload = body,
                                    !.outcome = "No LLM provider configured for model profile"]
            /\ UNCHANGED llmCalls
       ELSE /\ llmCalls < MaxLlmCalls
            /\ llmCalls' = llmCalls + 1
            /\ proc' = [proc EXCEPT !.pc = "llm", !.payload = body, !.calls = proc.calls + 1]
    /\ UNCHANGED <<agents, modelProfiles, intents, now, clients, last, llmProviders, act, extCalls, reg, pda, timers, run>>

\* axios.get rejects: the error leaves processIntent
ProcessIntentFetchFailed ==
    /\ proc.pc = "fetch"
    /\ proc' = [proc EXCEPT !.pc = "done", !.outcome = "fetch failed"]
    /\ UNCHANGED <<agents, modelProfiles, intents, now, clients, last, llmProviders, llmCalls, act, extCalls, reg, pda, timers, run>>

\* JSON.stringify({input: payload, output: result, timestamp: Date.now()})
ResultDataString(payload, output) ==
    <<"{", "input", ":">> \o JsonStringify(payload)
    \o <<",", "output", ":", "\"", output, "\"", ",", "timestamp", ":", ToString(now), "}">>

\* llmProvider.call resolves: the result is hashed and returned; the handler registered
\* in main logs the hash
ProcessIntentLLMReturned(output) ==
    /\ proc.pc = "llm"
    /\ LET resultHash == DigestBytes(ResultDataString(proc.payload, output))
       IN  proc' = [proc EXCEPT !.pc = "done", !.outcome = "returned",
                                !.result = [hash |-> resultHash, uri |-> <<"results", resultHash[2]>>]]
    /\ UNCHANGED <<agents, modelProfiles, intents, now, clients, last, llmProviders, llmCalls, act, extCalls, reg, pda, timers, run>>

\* A retry on failure: the rejected call is issued again
ProcessIntentLLMRetried ==
    /\ proc.pc = "llm"
    /\ llmCalls < MaxLlmCalls
    /\ llmCalls' = llmCalls + 1
    /\ proc' = [proc EXCEPT !.calls = proc.calls + 1]
    /\ UNCHANGED <<agents, modelProfiles, intents, now, clients, last, llmProviders, act, extCalls, reg, pda, timers, run>>

\* llmProvider.call rejects: the error leaves processIntent; the handler registered in
\* main catches it and logs it
ProcessIntentLLMFailed ==
    /\ proc.pc = "llm"
    /\ proc' = [proc EXCEPT !.pc = "done", !.outcome = "backend failed"]
    /\ UNCHANGED <<agents, modelProfiles, intents, now, clients, last, llmProviders, llmCalls, act, extCalls, reg, pda, timers, run>>

ActionKinds == {"swap", "transfer", "stake", "lend", "vote"}
MaskInputs == {0, CAN_SWAP, CAN_TRANSFER, CAN_SWAP + CAN_TRANSFER}
NoAct == [path |-> "none", permissions |-> 0, action |-> Undefined, outcome |-> Undefined, calls |-> 0]

\* The default branch left out: an action that is no transfer is run as a swap
ExecuteActionOutcomeNoDefault(permissions, action) ==
    IF action = "transfer"
    THEN IF HasFlag(permissions, CAN_TRANSFER) THEN "simulated-transfer-tx-signature"
         ELSE "Agent does not have CAN_TRANSFER permission"
    ELSE IF HasFlag(permissions, CAN_SWAP) THEN "simulated-swap-tx-signature"
         ELSE "Agent does not have CAN_SWAP permission"

\* What executeAction throws or returns
ExecuteActionOutcome(permissions, action) ==
    IF action = "swap" /\ ~HasFlag(permissions, CAN_SWAP)
    THEN "Agent does not have CAN_SWAP permission"
    ELSE IF action = "transfer" /\ ~HasFlag(permissions, CAN_TRANSFER)
    THEN "Agent does not have CAN_TRANSFER permission"
    ELSE CASE action = "swap" -> "simulated-swap-tx-signature"
           [] action = "transfer" -> "simulated-transfer-tx-signature"
           [] OTHER -> "Unknown action"

\* executeAction(agentConfig, action, params): no venue is called on any branch
ExecuteAction(permissions, action) ==
    /\ act' = [path |-> "executeAction", permissions |-> permissions, action |-> action,
               outcome |-> ExecuteActionOutcome(permissions, action), calls |-> 0]
    /\ UNCHANGED <<agents, modelProfiles, intents, now, clients, last, llmProviders, proc, llmCalls, extCalls, reg, pda, timers, run>>

----------------------------------------------------------------------------
(* ExecutionAgent, README.md (agents source) *)

\* executeRecommendation(rec) for the agent whose registered mask is permissions: the
\* ExecutionAgent holds no mask and reads none; a swap asks Jupiter for a quote
ExecuteRecommendation(permissions, action, quoteOk) ==
    /\ IF action = "swap"
       THEN /\ extCalls < MaxExtCalls
            /\ extCalls' = extCalls + 1
            /\ act' = [path |-> "executeRecommendation", permissions |-> permissions, action |-> action,
                       outcome |-> IF quoteOk THEN "simulated" ELSE "quote failed", calls |-> 1]
       ELSE /\ UNCHANGED extCalls
            /\ act' = [path |-> "executeRecommendation", permissions |-> permissions, action |-> action,
                       outcome |-> IF action \in {"stake", "lend"} THEN "simulated" ELSE "Unknown action",
                       calls |-> 0]
    /\ UNCHANGED <<agents, modelProfiles, intents, now, clients, last, llmProviders, proc, llmCalls, reg, pda, timers, run>>

----------------------------------------------------------------------------
(* The agent and model-profile registry, index.ts *)

Num(n) == [kind |-> "num", n |-> n]

\* !x for a number-typed field: undefined, null and 0 are falsy
FalsyNum(v) == v.kind \in {"undefined", "null"} \/ (v.kind = "num" /\ v.n = 0)

NoRequest == [op |-> "none", id |-> Undefined, body |-> Null, code |-> 0]

\* The body of PUT /api/agents/:id
AgentBody(agentWallet, modelProfile, metadataUri, permissions) ==
    [agentWallet |-> agentWallet, modelProfile |-> modelProfile, metadataUri |-> metadataUri,
     permissions |-> permissions]

\* The record after PUT /api/agents/:id has run on it
AgentUpdated(agent, body) ==
    ("updatedAt" :> now) @@
    [agent EXCEPT !.agentWallet = IF FalsyStr(body.agentWallet) THEN @ ELSE body.agentWallet,
                  !.modelProfile = IF FalsyStr(body.modelProfile) THEN @ ELSE body.modelProfile,
                  !.metadataUri = IF FalsyStr(body.metadataUri) THEN @ ELSE body.metadataUri,
                  !.permissions = IF body.permissions.kind = "undefined" THEN @ ELSE body.permissions.n]

\* PUT /api/agents/:id
UpdateAgent(id, body) ==
    /\ IF id \notin DOMAIN agents
       THEN /\ reg' = [op |-> "PUT /api/agents/:id", id |-> id, body |-> body, code |-> 404]
            /\ UNCHANGED agents
       ELSE /\ agents' = [agents EXCEPT ![id] = AgentUpdated(agents[id], body)]
            /\ reg' = [op |-> "PUT /api/agents/:id", id |-> id, body |-> body, code |-> 200]
    /\ UNCHANGED <<modelProfiles, intents, now, clients, last, llmProviders, proc, llmCalls, act, extCalls,
                   pda, timers, run>>

\* The body of POST /api/model-profiles and of PUT /api/model-profiles/:id
ProfileBody(ownerWallet, label, providerUri, pricing, billingWallet, maxTokensPerDay, maxRequestsPerMin) ==
    [ownerWallet |-> ownerWallet, label |-> label, providerUri |-> providerUri, pricing |-> pricing,
     billingWallet |-> billingWallet, maxTokensPerDay |-> maxTokensPerDay,
     maxRequestsPerMin |-> maxRequestsPerMin]

\* crypto.randomUUID(): an id no stored profile has
ProfileUuids == {"profile-uuid-" \o ToString(k) : k \in 1..MaxProfiles}
NewProfileId == CHOOSE id \in ProfileUuids : id \notin DOMAIN modelProfiles

\* The record built by POST /api/model-profiles
NewProfile(id, body) ==
    [id |-> id,
     ownerWallet |-> body.ownerWallet,
     label |-> body.label,
     providerUri |-> body.providerUri,
     pricing |-> IF FalsyNum(body.pricing) THEN 0 ELSE body.pricing.n,
     billingWallet |-> IF FalsyStr(body.billingWallet) THEN body.ownerWallet ELSE body.billingWallet,
     maxTokensPerDay |-> IF FalsyNum(body.maxTokensPerDay) THEN 1000000 ELSE body.maxTokensPerDay.n,
     maxRequestsPerMin |-> IF FalsyNum(body.maxRequestsPerMin) THEN 60 ELSE body.maxRequestsPerMin.n,
     createdAt |-> now]

\* POST /api/model-profiles
CreateModelProfile(body) ==
    /\ IF FalsyStr(body.ownerWallet) \/ FalsyStr(body.label) \/ FalsyStr(body.providerUri)
       THEN /\ reg' = [op |-> "POST /api/model-profiles", id |-> Undefined, body |-> body, code |-> 400]
            /\ UNCHANGED modelProfiles
       ELSE /\ ProfileUuids \ DOMAIN modelProfiles # {}
            /\ modelProfiles' = (NewProfileId :> NewProfile(NewProfileId, body)) @@ modelProfiles
            /\ reg' = [op |-> "POST /api/model-profiles", id |-> NewProfileId, body |-> body, code |-> 201]
    /\ UNCHANGED <<agents, intents, now, clients, last, llmProviders, proc, llmCalls, act, extCalls,
                   pda, timers, run>>

\* The caps written whenever the request names them: a cap of 0 is stored
ProfileUpdatedCapsDefined(profile, body) ==
    ("updatedAt" :> now) @@
    [profile EXCEPT !.label = IF FalsyStr(body.label) THEN @ ELSE body.label,
                    !.providerUri = IF FalsyStr(body.providerUri) THEN @ ELSE body.providerUri,
                    !.pricing = IF body.pricing.kind = "undefined" THEN @ ELSE body.pricing.n,
                    !.billingWallet = IF FalsyStr(body.billingWallet) THEN @ ELSE body.billingWallet,
                    !.maxTokensPerDay = IF body.maxTokensPerDay.kind = "undefined" THEN @
                                        ELSE body.maxTokensPerDay.n,
                    !.maxRequestsPerMin = IF body.maxRequestsPerMin.kind = "undefined" THEN @
                                          ELSE body.maxRequestsPerMin.n]

\* The record after PUT /api/model-profiles/:id has run on it
ProfileUpdated(profile, body) ==
    ("updatedAt" :> now) @@
    [profile EXCEPT !.label = IF FalsyStr(body.label) THEN @ ELSE body.label,
                    !.providerUri = IF FalsyStr(body.providerUri) THEN @ ELSE body.providerUri,
                    !.pricing = IF body.pricing.kind = "undefined" THEN @ ELSE body.pricing.n,
                    !.billingWallet = IF FalsyStr(body.billingWallet) THEN @ ELSE body.billingWallet,
                    !.maxTokensPerDay = IF FalsyNum(body.maxTokensPerDay) THEN @
                                        ELSE body.maxTokensPerDay.n,
                    !.maxRequestsPerMin = IF FalsyNum(body.maxRequestsPerMin) THEN @
                                          ELSE body.maxRequestsPerMin.n]

\* PUT /api/model-profiles/:id
UpdateModelProfile(id, body) ==
    /\ IF id \notin DOMAIN modelProfiles
       THEN /\ reg' = [op |-> "PUT /api/model-profiles/:id", id |-> id, body |-> body, code |-> 404]
            /\ UNCHANGED modelProfiles
       ELSE /\ modelProfiles' = [modelProfiles EXCEPT ![id] = ProfileUpdated(modelProfiles[id], body)]
            /\ reg' = [op |-> "PUT /api/model-profiles/:id", id |-> id, body |-> body, code |-> 200]
    /\ UNCHANGED <<agents, intents, now, clients, last, llmProviders, proc, llmCalls, act, extCalls,
                   pda, timers, run>>

----------------------------------------------------------------------------
(* Address derivation and the polling subscription, mesh-controller.ts *)

\* The k low bytes of n, least significant byte first
RECURSIVE BytesLE(_, _)
BytesLE(n, k) == IF k = 0 THEN <<>> ELSE <<n % 256>> \o BytesLE(n \div 256, k - 1)

\* Buffer.alloc(8) filled by writeBigUInt64LE(BigInt(nonce))
NonceBuffer(nonce) == BytesLE(nonce, 8)

\* The seeds handed to PublicKey.findProgramAddressSync (the address is a function of
\* the seeds and the program id)
IntentSeeds(fromAgent, toAgent, nonce) == <<"intent", fromAgent, toAgent, NonceBuffer(nonce)>>

NoPda == [fromAgent |-> Undefined, toAgent |-> Undefined, nonce |-> 0, seeds |-> <<>>]
NonceInputs == 0..MaxNonce

\* getIntentPDA(fromAgent, toAgent, nonce)
GetIntentPDA(fromAgent, toAgent, nonce) ==
    /\ pda' = [fromAgent |-> fromAgent, toAgent |-> toAgent, nonce |-> nonce,
               seeds |-> IntentSeeds(fromAgent, toAgent, nonce)]
    /\ UNCHANGED <<agents, modelProfiles, intents, now, clients, last, llmProviders, proc, llmCalls, act,
                   extCalls, reg, timers, run>>

\* subscribeToIntents(agentPubkey): setInterval registers a timer with the runtime; the
\* handle it returns is dropped
SubscribeToIntents(agent) ==
    /\ Len(timers) < MaxTimers
    /\ timers' = Append(timers, [agent |-> agent, cleared |-> FALSE, scanning |-> 0])
    /\ UNCHANGED <<agents, modelProfiles, intents, now, clients, last, llmProviders, proc, llmCalls, act,
                   extCalls, reg, pda, run>>

\* The interval of timer t elapses: the callback issues getProgramAccounts (a scan that
\* is still awaited does not hold the next one back)
TimerFired(t) ==
    /\ t \in DOMAIN timers
    /\ ~timers[t].cleared
    /\ timers[t].scanning < MaxScanning
    /\ timers' = [timers EXCEPT ![t].scanning = @ + 1]
    /\ UNCHANGED <<agents, modelProfiles, intents, now, clients, last, llmProviders, proc, llmCalls, act,
                   extCalls, reg, pda, run>>

\* getProgramAccounts resolves or rejects: the accounts found are logged, the error is
\* caught and logged
ScanSettled(t) ==
    /\ t \in DOMAIN timers
    /\ timers[t].scanning > 0
    /\ timers' = [timers EXCEPT ![t].scanning = @ - 1]
    /\ UNCHANGED <<agents, modelProfiles, intents, now, clients, last, llmProviders, proc, llmCalls, act,
                   extCalls, reg, pda, run>>

----------------------------------------------------------------------------
(* ExecutionAgent.processIntent, README.md (agents source) *)

RecommendationKinds == {"swap", "stake", "vote"}

RECURSIVE SeqsUpTo(_, _)
\* The sequences over S of length at most n
SeqsUpTo(S, n) ==
    IF n = 0 THEN {<<>>}
    ELSE SeqsUpTo(S, n - 1) \cup {Append(s, x) : s \in {r \in SeqsUpTo(S, n - 1) : Len(r) = n - 1}, x \in S}

RecommendationInputs == SeqsUpTo(RecommendationKinds, MaxRecs)

NoSummary == [total |-> 0, successful |-> 0, failed |-> 0]
IdleRun == [pc |-> "idle", recs |-> <<>>, idx |-> 0, results |-> <<>>, calls |-> 0, summary |-> NoSummary]

\* summary: {total, successful, failed} of the results
Summary(results) ==
    [total |-> Len(results),
     successful |-> Cardinality({i \in DOMAIN results : results[i].success}),
     failed |-> Cardinality({i \in DOMAIN results : ~results[i].success})]

\* The for loop has run out of recommendations: processIntent returns
Returned(r) == IF r.idx > Len(r.recs) THEN [r EXCEPT !.pc = "done", !.summary = Summary(r.results)] ELSE r

\* processIntent(intent) is called with intent.payload.recommendations = recs (a missing
\* list is the empty one)
ExecutionAgentProcessIntent(recs) ==
    /\ run.pc \in {"idle", "done"}
    /\ run' = Returned([IdleRun EXCEPT !.pc = "loop", !.recs = recs, !.idx = 1])
    /\ UNCHANGED <<agents, modelProfiles, intents, now, clients, last, llmProviders, proc, llmCalls, act,
                   extCalls, reg, pda, timers>>

\* What executeRecommendation(rec) returns or throws
RecommendationOutcome(action, quoteOk) ==
    CASE action = "swap" -> IF quoteOk THEN "simulated" ELSE "quote failed"
      [] action \in {"stake", "lend"} -> "simulated"
      [] OTHER -> "Unknown action"

\* The loop cut short: a recommendation that throws ends the loop
ExecutionAgentStepAborting(permissions, quoteOk) ==
    /\ run.pc = "loop"
    /\ LET rec == run.recs[run.idx]
           outcome == RecommendationOutcome(rec, quoteOk)
           swap == IF rec = "swap" THEN 1 ELSE 0
           pushed == [run EXCEPT !.results = Append(@, [recommendation |-> rec,
                                                         success |-> outcome = "simulated"]),
                                 !.calls = @ + swap, !.idx = @ + 1]
       IN  /\ extCalls + swap <= MaxExtCalls
           /\ extCalls' = extCalls + swap
           /\ act' = [path |-> "executeRecommendation", permissions |-> permissions, action |-> rec,
                      outcome |-> outcome, calls |-> swap]
           /\ run' = IF outcome = "simulated" THEN Returned(pushed)
                     ELSE [pushed EXCEPT !.pc = "done", !.summary = Summary(pushed.results)]
    /\ UNCHANGED <<agents, modelProfiles, intents, now, clients, last, llmProviders, proc, llmCalls,
                   reg, pda, timers>>

\* One pass of the for loop: executeRecommendation(rec) settles, its result or its error
\* is pushed, and the loop moves on (returning the summary after the last one)
ExecutionAgentStep(permissions, quoteOk) ==
    /\ run.pc = "loop"
    /\ LET rec == run.recs[run.idx]
           outcome == RecommendationOutcome(rec, quoteOk)
           swap == IF rec = "swap" THEN 1 ELSE 0
           pushed == [run EXCEPT !.results = Append(@, [recommendation |-> rec,
                                                         success |-> outcome = "simulated"]),
                                 !.calls = @ + swap, !.idx = @ + 1]
       IN  /\ extCalls + swap <= MaxExtCalls
           /\ extCalls' = extCalls + swap
           /\ act' = [path |-> "executeRecommendation", permissions |-> permissions, action |-> rec,
                      outcome |-> outcome, calls |-> swap]
           /\ run' = Returned(pushed)
    /\ UNCHANGED <<agents, modelProfiles, intents, now, clients, last, llmProviders, proc, llmCalls,
                   reg, pda, timers>>

----------------------------------------------------------------------------
(* Specifications *)

Init ==
    /\ agents = [a \in {} |-> Null]
    /\ modelProfiles = [p \in {} |-> Null]
    /\ intents = [i \in {} |-> Null]
    /\ now = 0
    /\ clients = [c \in AgentIds |-> Idle]
    /\ last = [code |-> 0, fromAgent |-> Undefined, id |-> 0]
    /\ llmProviders = {}
    /\ proc = IdleProc
    /\ llmCalls = 0
    /\ act = NoAct
    /\ extCalls = 0
    /\ reg = NoRequest
    /\ pda = NoPda
    /\ timers = <<>>
    /\ run = IdleRun

\* The intent store behind the API: intents are created and one caller updates statuses
Next ==
    \/ DemoSetup
    \/ \E f \in AgentIds, t \in AgentIds : PostIntent(f, t, SwapOne, 1000, Undefined)
    \/ \E id \in IntentIds, st \in StatusInputs, r \in ResultInputs : SendStatus(ExecutionAgentId, id, st, r)
    \/ HandleStatus(ExecutionAgentId)

Spec == Init /\ [][Next]_vars

\* acceptIntent: both agents issue PUT status {status: 'accepted'}, possibly at once
NextAccept ==
    \/ DemoSetup
    \/ \E f \in AgentIds, t \in AgentIds : PostIntent(f, t, SwapOne, 1000, Undefined)
    \/ \E c \in AgentIds, id \in IntentIds : SendStatus(c, id, "accepted", UndefinedValue)
    \/ \E c \in AgentIds : HandleStatus(c)

SpecAccept == Init /\ [][NextAccept]_vars

\* The controller: intents of the store are accepted, completed and handed to processIntent
NextController ==
    \/ PostIntent(ResearchAgent, ExecutionAgentId, SwapOne, 1000, Undefined)
    \/ \E id \in IntentIds, st \in {"accepted", "completed"} :
          SendStatus(ExecutionAgentId, id, st, UndefinedValue)
    \/ HandleStatus(ExecutionAgentId)
    \/ RegisterLLMProvider("high-accuracy-profile")
    \/ \E id \in IntentIds : ProcessIntentCall(id, "high-accuracy-profile")
    \/ \E body \in {SwapOne, SwapTwo} : ProcessIntentFetched(body)
    \/ ProcessIntentFetchFailed
    \/ ProcessIntentLLMReturned("ok")
    \/ ProcessIntentLLMFailed

SpecController == Init /\ [][NextController]_vars

\* createIntent: requests of every shape reach POST /api/intents while the clock runs
PayloadInputs == {SwapOne, EmptyObject, Str("")}
AmountInputs == {0 - 1, 0, 1000}

NextCreate ==
    \/ DemoSetup
    \/ Tick
    \/ \E f \in AgentIds \cup {Undefined}, t \in AgentIds, p \in PayloadInputs, a \in AmountInputs :
          PostIntent(f, t, p, a, Undefined)

SpecCreate == Init /\ [][NextCreate]_vars

\* createIntent racing: creates of the same pair at the same clock reading
NextCreateRace ==
    \/ Tick
    \/ \E f \in AgentIds, t \in AgentIds, p \in {SwapOne, SwapTwo} : PostIntent(f, t, p, 1000, Undefined)

SpecCreateRace == Init /\ [][NextCreateRace]_vars

\* Intents carrying different payment amounts go through status updates
NextPayment ==
    \/ \E a \in {0, 1000} : PostIntent(ResearchAgent, ExecutionAgentId, SwapOne, a, Undefined)
    \/ \E id \in IntentIds, st \in {"accepted", "completed"}, r \in ResultInputs :
          SendStatus(ExecutionAgentId, id, st, r)
    \/ HandleStatus(ExecutionAgentId)

SpecPayment == Init /\ [][NextPayment]_vars

\* Privileged actions: through MeshController.executeAction and through the ExecutionAgent
NextActions ==
    \/ \E m \in MaskInputs, a \in ActionKinds : ExecuteAction(m, a)
    \/ \E m \in MaskInputs, a \in ActionKinds, q \in BOOLEAN : ExecuteRecommendation(m, a, q)

SpecActions == Init /\ [][NextActions]_vars

\* The payload digest: intents with different bodies are created and go through
\* status updates
NextIntegrity ==
    \/ \E p \in {SwapOne, SwapOneReordered, SwapTwo} :
          PostIntent(ResearchAgent, ExecutionAgentId, p, 1000, Undefined)
    \/ \E id \in IntentIds, st \in {"accepted", "completed"}, r \in ResultInputs :
          SendStatus(ExecutionAgentId, id, st, r)
    \/ HandleStatus(ExecutionAgentId)

SpecIntegrity == Init /\ [][NextIntegrity]_vars

\* processIntent on a payload whose keys come back from the locator in another order
NextReorder ==
    \/ PostIntent(ResearchAgent, ExecutionAgentId, SwapOne, 1000, Undefined)
    \/ \E id \in IntentIds : SendStatus(ExecutionAgentId, id, "accepted", UndefinedValue)
    \/ HandleStatus(ExecutionAgentId)
    \/ RegisterLLMProvider("high-accuracy-profile")
    \/ \E id \in IntentIds : ProcessIntentCall(id, "high-accuracy-profile")
    \/ \E body \in {SwapOne, SwapOneReordered} : ProcessIntentFetched(body)
    \/ ProcessIntentFetchFailed
    \/ ProcessIntentLLMReturned("ok")
    \/ ProcessIntentLLMFailed

SpecReorder == Init /\ [][NextReorder]_vars

\* Intent addresses are derived for nonces of one and of two significant bytes
NextDerive ==
    \E f \in AgentIds, t \in AgentIds, n \in NonceInputs : GetIntentPDA(f, t, n)

SpecDerive == Init /\ [][NextDerive]_vars

\* Agent records are updated while intents that name the agents move on
AgentInputs == {AgentBody("OtherWallet", Undefined, Undefined, UndefinedValue),
                AgentBody("", "", "", Num(0)),
                AgentBody(Undefined, Undefined, Undefined, UndefinedValue)}

NextAgents ==
    \/ DemoSetup
    \/ PostIntent(ResearchAgent, ExecutionAgentId, SwapOne, 1000, Undefined)
    \/ \E id \in IntentIds : SendStatus(ExecutionAgentId, id, "accepted", UndefinedValue)
    \/ HandleStatus(ExecutionAgentId)
    \/ \E a \in AgentIds, b \in AgentInputs : UpdateAgent(a, b)

SpecAgents == Init /\ [][NextAgents]_vars

\* Model-profile requests: the numbers missing, zero, positive and negative
MissingCaps == ProfileBody("Owner1", "llm", "gateway/llm", UndefinedValue, Undefined,
                           UndefinedValue, UndefinedValue)
ZeroCaps == ProfileBody("Owner1", "llm", "gateway/llm", Num(0), "", Num(0), Num(0))
PositiveCaps == ProfileBody("Owner1", "llm", "gateway/llm", Num(5), "Billing2", Num(7), Num(3))
NegativeCaps == ProfileBody("Owner1", "llm", "gateway/llm", Num(0 - 1), Undefined, Num(0 - 1), Num(0 - 1))
ZeroPatch == ProfileBody(Undefined, "", "", Num(0), "", Num(0), Num(0))
PositivePatch == ProfileBody(Undefined, Undefined, Undefined, Num(5), Undefined, Num(7), Num(3))
NegativePatch == ProfileBody(Undefined, Undefined, Undefined, Num(0 - 1), Undefined, Num(0 - 1), Num(0 - 1))

ProfileIds == ProfileKeys \cup ProfileUuids

NextProfiles ==
    \/ DemoSetup
    \/ \E b \in {MissingCaps, ZeroCaps, NegativeCaps, ZeroPatch} : CreateModelProfile(b)
    \/ \E id \in ProfileIds, b \in {ZeroPatch, PositivePatch, NegativePatch} : UpdateModelProfile(id, b)

SpecProfiles == Init /\ [][NextProfiles]_vars

\* Model-profile requests whose caps are missing, zero or positive
NextProfileCaps ==
    \/ DemoSetup
    \/ \E b \in {MissingCaps, ZeroCaps, PositiveCaps} : CreateModelProfile(b)
    \/ \E id \in ProfileIds, b \in {ZeroPatch, PositivePatch} : UpdateModelProfile(id, b)

SpecProfileCaps == Init /\ [][NextProfileCaps]_vars

\* The polling subscriptions of the controller: every operation that touches a timer
NextPolling ==
    \/ \E a \in AgentIds : SubscribeToIntents(a)
    \/ \E t \in 1..MaxTimers : TimerFired(t)
    \/ \E t \in 1..MaxTimers : ScanSettled(t)

SpecPolling == Init /\ [][NextPolling]_vars

\* The ExecutionAgent works through the recommendations of the intents handed to it
NextExecution ==
    \/ \E recs \in RecommendationInputs : ExecutionAgentProcessIntent(recs)
    \/ \E q \in BOOLEAN : ExecutionAgentStep(CAN_SWAP + CAN_TRANSFER + CAN_ACCEPT_INTENT, q)

SpecExecution == Init /\ [][NextExecution]_vars

----------------------------------------------------------------------------
(* Intent state machine *)

LegalTransitions == {<<"pending", "accepted">>, <<"pending", "failed">>,
                     <<"accepted", "completed">>, <<"accepted", "failed">>}

\* What a caller was told: the error kind of the HTTP status code
Outcome(slot) ==
    CASE slot.code = 200 -> "Ok"
      [] slot.code = 404 -> "NotFound"
      [] slot.code = 400 -> "InvalidArgument"
      [] OTHER -> "None"

\* The step answers c's acceptIntent on intent id
AcceptAnswered(c, id) ==
    /\ clients[c].pc = "sent"
    /\ clients'[c].pc = "done"
    /\ clients[c].status = "accepted"
    /\ clients[c].id = id

\* C1: an intent's status only ever changes along Pending->Accepted, Pending->Failed,
\* Accepted->Completed or Accepted->Failed.
C1_OnlyLegalTransitions ==
    [][\A id \in DOMAIN intents :
          \/ intents'[id].status = intents[id].status
          \/ <<intents[id].status, intents'[id].status>> \in LegalTransitions]_vars

\* C2: once an intent is Completed or Failed, no later operation changes any field of
\* its record.
C2_TerminalIsFrozen ==
    [][\A id \in DOMAIN intents :
          intents[id].status \in Terminal => intents'[id] = intents[id]]_vars

\* C3: in every reachable state an intent's result digest is set if and only if its
\* status is Completed.
C3_ResultDigestIffCompleted ==
    \A id \in DOMAIN intents :
        (intents[id].resultHash # NullHash) <=> (intents[id].status = "completed")

\* C4: two acceptIntent requests issued concurrently on the same fresh Pending intent:
\* exactly one reports Accepted and the other reports InvalidState.
C4_ExactlyOneAccepts ==
    \A c \in AgentIds, d \in AgentIds :
        ( /\ c # d
          /\ clients[c].pc = "done" /\ clients[d].pc = "done"
          /\ clients[c].status = "accepted" /\ clients[d].status = "accepted"
          /\ clients[c].id = clients[d].id
          /\ clients[c].fresh /\ clients[d].fresh )
        => \/ Outcome(clients[c]) = "Ok" /\ clients[c].answered = "accepted"
              /\ Outcome(clients[d]) = "InvalidState"
           \/ Outcome(clients[d]) = "Ok" /\ clients[d].answered = "accepted"
              /\ Outcome(clients[c]) = "InvalidState"

\* C5: acceptIntent on an Accepted, Completed or Failed intent fails with InvalidState
\* and leaves the intent record unchanged.
C5_AcceptNeedsPending ==
    [][\A c \in AgentIds : \A id \in DOMAIN intents :
          (AcceptAnswered(c, id) /\ intents[id].status \in {"accepted", "completed", "failed"})
          => (Outcome(clients'[c]) = "InvalidState" /\ intents'[id] = intents[id])]_vars

\* What POST /api/intents told its caller
CreateOutcome(response) ==
    CASE response.code = 201 -> "Created"
      [] response.code = 400 -> "InvalidArgument"
      [] OTHER -> "None"

\* C6: createIntent for a source agent whose mask lacks CAN_CREATE_INTENT fails with
\* PermissionDenied and adds no intent record.
C6_CreateNeedsPermission ==
    [][( /\ last' # last \/ DOMAIN intents' # DOMAIN intents
         /\ last'.fromAgent \in DOMAIN agents
         /\ ~HasFlag(PermOf(last'.fromAgent), CAN_CREATE_INTENT) )
       => (CreateOutcome(last') = "PermissionDenied" /\ DOMAIN intents' = DOMAIN intents)]_vars

\* C7: acceptIntent moves an intent from Pending to Accepted only when the requester is
\* the intent's destination and its mask holds CAN_ACCEPT_INTENT; otherwise it fails
\* with PermissionDenied and the status stays Pending.
C7_AcceptNeedsDestinationAndFlag ==
    [][\A c \in AgentIds : \A id \in DOMAIN intents :
          ( /\ AcceptAnswered(c, id)
            /\ intents[id].status = "pending"
            /\ ~(c = intents[id].toAgent /\ HasFlag(PermOf(c), CAN_ACCEPT_INTENT)) )
          => (Outcome(clients'[c]) = "PermissionDenied" /\ intents'[id].status = "pending")]_vars

----------------------------------------------------------------------------
(* Privileged actions and processIntent *)

PermissionDeniedMessages == {"Agent does not have CAN_SWAP permission",
                             "Agent does not have CAN_TRANSFER permission"}

\* The flag an action kind is gated by (0: none)
FlagOf(action) ==
    CASE action = "swap" -> CAN_SWAP
      [] action = "transfer" -> CAN_TRANSFER
      [] OTHER -> 0

\* C8: a swap or transfer for an agent whose mask lacks CAN_SWAP / CAN_TRANSFER fails
\* with PermissionDenied and makes no external call, on every path that performs one.
C8_NoExternalCallWithoutFlag ==
    (act.action \in {"swap", "transfer"} /\ ~HasFlag(act.permissions, FlagOf(act.action)))
    => (act.outcome \in PermissionDeniedMessages /\ act.calls = 0)

\* The step in which the fetched payload body reaches processIntent
PayloadArrived ==
    /\ proc.pc = "fetch"
    /\ proc'.pc # "fetch"
    /\ proc'.payload # UndefinedValue

\* C9: processIntent on an intent whose fetched payload hashes to a value other than the
\* stored payload digest fails with the hash-mismatch error before the backend is
\* invoked, and the intent's status stays what it was (Accepted): nothing is recorded.
C9_IntegrityViolationAborts ==
    [][( /\ PayloadArrived
         /\ DigestBytes(JsonStringify(proc'.payload)) # proc.intent.payloadHash )
       => ( /\ proc'.pc = "done"
            /\ proc'.outcome = "Payload hash mismatch"
            /\ proc'.result = NoResult
            /\ proc'.calls = 0
            /\ llmCalls' = llmCalls
            /\ intents' = intents )]_vars

\* C9 witness: processIntent has failed on an Accepted intent whose fetched body was altered
C9_Witness ==
    /\ proc.pc = "done"
    /\ proc.outcome = "Payload hash mismatch"
    /\ proc.intent.status = "Accepted"
    /\ proc.payload = SwapTwo
    /\ intents[proc.id].payload = SwapOne
    /\ intents[proc.id].status = "accepted"

\* C10: processIntent on an intent that is Pending, Completed or Failed fails without
\* invoking the backend and without producing a result.
C10_ProcessNeedsAccepted ==
    (proc.pc # "idle" /\ proc.intent.status # "Accepted")
    => ( /\ proc.pc # "llm"
         /\ proc.calls = 0
         /\ proc.result = NoResult
         /\ proc.outcome # "returned" )

\* The digests of the modelled bodies are pairwise distinct
DigestCollisionFree ==
    \A a \in Bodies \cup {Str("ok"), Str("err")}, b \in Bodies \cup {Str("ok"), Str("err")} :
        Sha256(JsonStringify(a)) = Sha256(JsonStringify(b)) => JsonStringify(a) = JsonStringify(b)

\* The step in which the backend call of processIntent on an Accepted, verified intent
\* comes back
BackendAnswered(outcome) ==
    /\ proc.pc = "llm"
    /\ proc'.pc = "done"
    /\ proc'.outcome = outcome
    /\ proc.intent.status = "Accepted"
    /\ proc.id \in DOMAIN intents

\* C11: processIntent on an Accepted intent with a matching digest and a backend that
\* returns successfully leaves the intent Completed, with result digest and result
\* locator recorded on the intent.
C11_SuccessCompletesIntent ==
    [][BackendAnswered("returned")
       => ( /\ intents'[proc.id].status = "completed"
            /\ intents'[proc.id].resultHash # NullHash
            /\ intents'[proc.id].resultUri # <<"null">> )]_vars

\* C12: when the backend call of processIntent fails, the intent goes to Failed and the
\* failure reason is recorded on the intent.
C12_BackendFailureFailsIntent ==
    [][BackendAnswered("backend failed")
       => ( /\ intents'[proc.id].status = "failed"
            /\ intents'[proc.id].result # Null )]_vars

\* C13: one processIntent invocation calls the backend at most once: the call is made
\* when the verified payload and the provider are at hand, and neither a failure nor
\* anything else makes the invocation call again.
C13_BackendCalledAtMostOnce ==
    [][ /\ proc'.calls <= 1
        /\ (llmCalls' # llmCalls)
              => (llmCalls' = llmCalls + 1 /\ proc.pc = "fetch" /\ proc.calls = 0 /\ proc'.calls = 1)
        /\ (proc.pc = "llm") => (llmCalls' = llmCalls /\ proc'.calls = proc.calls) ]_vars

\* C13 witness: the backend call failed, and the invocation ended with that one call made
C13_Witness ==
    /\ proc.pc = "done"
    /\ proc.outcome = "backend failed"
    /\ proc.calls = 1
    /\ llmCalls = 1

\* C14: processIntent for an agent whose model profile has no registered backend fails
\* with the no-provider error at the lookup (reached once the fetched payload has
\* verified); the backend is not invoked and no result is produced.
C14_NoProviderConfigured ==
    [][( /\ PayloadArrived
         /\ proc.profile \notin llmProviders )
       => ( /\ proc'.pc = "done"
            /\ proc'.result = NoResult
            /\ proc'.calls = 0
            /\ llmCalls' = llmCalls
            /\ (DigestBytes(JsonStringify(proc'.payload)) = proc.intent.payloadHash)
                  => proc'.outcome = "No LLM provider configured for model profile" )]_vars

\* C14 witness: an unaltered payload was fetched and processIntent ended on the missing provider
C14_Witness ==
    /\ proc.pc = "done"
    /\ proc.outcome = "No LLM provider configured for model profile"
    /\ proc.payload = SwapOne
    /\ proc.profile \notin llmProviders
    /\ llmCalls = 0

\* The action kinds each path supports
SupportedBy(path) ==
    CASE path = "executeAction" -> {"swap", "transfer"}
      [] path = "executeRecommendation" -> {"swap", "stake", "lend"}
      [] OTHER -> {}

\* C15: executeAction with an action kind other than the supported ones fails with the
\* unknown-action error for every permission mask, and has no side effect (the same
\* holds of the ExecutionAgent's executeRecommendation).
C15_UnknownActionRejected ==
    [][( /\ act' # act
         /\ act'.action \notin SupportedBy(act'.path) )
       => ( /\ act'.outcome = "Unknown action"
            /\ act'.calls = 0
            /\ extCalls' = extCalls
            /\ UNCHANGED <<agents, modelProfiles, intents, llmProviders, llmCalls>> )]_vars

\* C15 witness: executeAction was asked for a vote by an agent holding both flags and refused it
C15_Witness ==
    /\ act.path = "executeAction"
    /\ act.action = "vote"
    /\ act.permissions = CAN_SWAP + CAN_TRANSFER
    /\ act.outcome = "Unknown action"
    /\ extCalls = 0

----------------------------------------------------------------------------
(* createIntent *)

\* Two stored intents of the same (source, destination) pair
SamePair(i, j) ==
    /\ intents[i].fromAgent = intents[j].fromAgent
    /\ intents[i].toAgent = intents[j].toAgent

\* C16: in every reachable state no two distinct intents of the same (source,
\* destination) pair carry the same nonce, also when both were created at the same
\* clock reading.
C16_NonceUniquePerPair ==
    \A i \in DOMAIN intents, j \in DOMAIN intents :
        (i # j /\ SamePair(i, j)) => intents[i].nonce # intents[j].nonce

\* C17: createIntent never overwrites a stored intent: every create adds one record
\* under a key of its own and leaves every stored record as it was.
C17_CreateNeverOverwrites ==
    [][(intents' # intents)
       => ( /\ \A id \in DOMAIN intents : id \in DOMAIN intents' /\ intents'[id] = intents[id]
            /\ Cardinality(DOMAIN intents') = Cardinality(DOMAIN intents) + 1
            /\ last'.id \in DOMAIN intents' \ DOMAIN intents )]_vars

\* C17 witness: two creates of the same pair at the same clock reading are both in the store
C17_Witness ==
    \E i \in DOMAIN intents, j \in DOMAIN intents :
        /\ i # j
        /\ SamePair(i, j)
        /\ intents[i].nonce = intents[j].nonce
        /\ intents[i].payload # intents[j].payload

\* A payload with nothing in it
EmptyPayload(v) == Falsy(v) \/ v = EmptyObject

\* C18: createIntent fails with InvalidArgument and creates no record when the source
\* equals the destination or the payload is empty.
C18_RejectsSelfAndEmpty ==
    /\ \A id \in DOMAIN intents :
          intents[id].fromAgent # intents[id].toAgent /\ ~EmptyPayload(intents[id].payload)
    /\ last.code = 201 => last.id \in DOMAIN intents

\* C19: createIntent with a negative payment amount (-1) fails with InvalidArgument and
\* stores no intent.
C19_RejectsNegativePayment ==
    \A id \in DOMAIN intents : intents[id].paymentAmount >= 0

\* C20: an intent's paymentAmount is fixed when the intent is created: no later
\* operation on the intent store, status transition included, changes it.
C20_PaymentAmountFixed ==
    [][\A id \in DOMAIN intents :
          id \in DOMAIN intents' /\ intents'[id].paymentAmount = intents[id].paymentAmount]_vars

\* C20 witness: an intent created with amount 1000 was accepted, then completed with a result
C20_Witness ==
    \E id \in DOMAIN intents :
        /\ intents[id].paymentAmount = 1000
        /\ intents[id].status = "completed"
        /\ intents[id].resultHash # NullHash
        /\ intents[id].updatedAt # NoTime

----------------------------------------------------------------------------
(* Payload integrity and address derivation *)

\* C21: in every reachable state of the intent store, every intent that has a stored
\* payload body and a payload digest satisfies payloadDigest = digest(payload body).
C21_PayloadDigestMatches ==
    \A id \in DOMAIN intents :
        (intents[id].payload # UndefinedValue /\ intents[id].payloadHash # NullHash)
        => intents[id].payloadHash = DigestHex(JsonStringify(intents[id].payload))

\* C21 witness: an intent whose body is not the first one was completed with a result,
\* body and digest still in step
C21_Witness ==
    \E id \in DOMAIN intents :
        /\ intents[id].payload = SwapTwo
        /\ intents[id].payloadHash = DigestHex(JsonStringify(SwapTwo))
        /\ intents[id].status = "completed"
        /\ intents[id].resultHash # NullHash

\* Two bodies with the same keys and the same values, whatever the order of the keys
SemanticallyEqual(a, b) ==
    /\ a.kind = "obj"
    /\ b.kind = "obj"
    /\ {a.pairs[i] : i \in DOMAIN a.pairs} = {b.pairs[i] : i \in DOMAIN b.pairs}

\* C22: the digest of a payload body does not depend on the order of its keys: a
\* payload hashed at creation verifies in processIntent when the same keys and values
\* come back in another order.
C22_DigestIgnoresKeyOrder ==
    [][( /\ PayloadArrived
         /\ proc.intent.status = "Accepted"
         /\ proc.id \in DOMAIN intents
         /\ SemanticallyEqual(proc'.payload, intents[proc.id].payload) )
       => ( /\ proc'.outcome # "Payload hash mismatch"
            /\ Sha256(JsonStringify(proc'.payload)) = Sha256(JsonStringify(intents[proc.id].payload)) )]_vars

\* The k low bytes of n, most significant byte first
RECURSIVE BytesBE(_, _)
BytesBE(n, k) == IF k = 0 THEN <<>> ELSE BytesBE(n \div 256, k - 1) \o <<n % 256>>

\* C23: the intent address is derived from the ordered seeds ("intent", from, to, nonce)
\* with the nonce encoded as exactly 8 bytes in big-endian byte order.
C23_NonceBigEndian8Bytes ==
    (pda # NoPda)
    => pda.seeds = <<"intent", pda.fromAgent, pda.toAgent, BytesBE(pda.nonce, 8)>>

----------------------------------------------------------------------------
(* The registry *)

\* Some intent naming agent a has moved past Pending
ReferencedPastPending(a) ==
    \E id \in DOMAIN intents :
        /\ intents[id].fromAgent = a \/ intents[id].toAgent = a
        /\ intents[id].status # "pending"

\* C24: an agent's acting identity (agent wallet) is not changed by any update once an
\* intent referencing the agent has moved past Pending.
C24_ActingIdentityFrozen ==
    [][\A a \in DOMAIN agents :
          ReferencedPastPending(a)
          => (a \in DOMAIN agents' /\ agents'[a].agentWallet = agents[a].agentWallet)]_vars

\* C25: in every reachable state every model profile has a non-negative price, a
\* non-negative daily token cap and a non-negative per-minute request cap.
C25_ProfileNumbersNonNegative ==
    \A p \in DOMAIN modelProfiles :
        /\ modelProfiles[p].pricing >= 0
        /\ modelProfiles[p].maxTokensPerDay >= 0
        /\ modelProfiles[p].maxRequestsPerMin >= 0

\* C26: a put on an existing agent or model-profile key replaces the whole record: the
\* stored configurable fields are exactly the fields of the request, fields supplied as
\* empty or zero included.
C26_PutReplacesRecord ==
    [][( /\ reg' # reg
         /\ reg'.code = 200 )
       => LET b == reg'.body
          IN  /\ (reg'.op = "PUT /api/agents/:id")
                    => LET a == agents'[reg'.id]
                       IN  /\ a.agentWallet = b.agentWallet
                           /\ a.modelProfile = b.modelProfile
                           /\ a.metadataUri = b.metadataUri
                           /\ Num(a.permissions) = b.permissions
              /\ (reg'.op = "PUT /api/model-profiles/:id")
                    => LET p == modelProfiles'[reg'.id]
                       IN  /\ p.label = b.label
                           /\ p.providerUri = b.providerUri
                           /\ Num(p.pricing) = b.pricing
                           /\ p.billingWallet = b.billingWallet
                           /\ Num(p.maxTokensPerDay) = b.maxTokensPerDay
                           /\ Num(p.maxRequestsPerMin) = b.maxRequestsPerMin]_vars

\* C27: the periodic scan of a subscription is cancellable: whenever a subscription is
\* running, the controller has a stop step for it, one that clears its timer (and a
\* cleared timer scans no more).
C27_PollingCancellable ==
    \A t \in DOMAIN timers :
        ~timers[t].cleared => ENABLED (NextPolling /\ timers'[t].cleared)

\* C28: no stored model profile has a daily token cap or a per-minute request cap of
\* zero: a create supplying 0 or nothing stores the default (1000000 / 60), and an
\* update supplying 0 leaves the cap as it was.
C28_NoZeroCap ==
    [][ /\ \A p \in DOMAIN modelProfiles' :
              modelProfiles'[p].maxTokensPerDay # 0 /\ modelProfiles'[p].maxRequestsPerMin # 0
        /\ (reg' # reg /\ reg'.code = 201)
              => /\ FalsyNum(reg'.body.maxTokensPerDay)
                       => modelProfiles'[reg'.id].maxTokensPerDay = 1000000
                 /\ FalsyNum(reg'.body.maxRequestsPerMin)
                       => modelProfiles'[reg'.id].maxRequestsPerMin = 60
        /\ (reg' # reg /\ reg'.code = 200 /\ reg'.op = "PUT /api/model-profiles/:id")
              => /\ reg'.body.maxTokensPerDay = Num(0)
                       => modelProfiles'[reg'.id].maxTokensPerDay = modelProfiles[reg'.id].maxTokensPerDay
                 /\ reg'.body.maxRequestsPerMin = Num(0)
                       => modelProfiles'[reg'.id].maxRequestsPerMin
                             = modelProfiles[reg'.id].maxRequestsPerMin ]_vars

\* C28 witness: a created profile holds the default caps, and the last request, an
\* update of a demo profile supplying 0 for price and caps, stored the price and kept
\* the caps
C28_Witness ==
    /\ \E p \in ProfileUuids \cap DOMAIN modelProfiles :
          modelProfiles[p].maxTokensPerDay = 1000000 /\ modelProfiles[p].maxRequestsPerMin = 60
    /\ reg.op = "PUT /api/model-profiles/:id"
    /\ reg.code = 200
    /\ reg.id = "cheap-llm-profile"
    /\ reg.body = ZeroPatch
    /\ modelProfiles[reg.id].pricing = 0
    /\ modelProfiles[reg.id].maxTokensPerDay = 10000000
    /\ modelProfiles[reg.id].maxRequestsPerMin = 100

----------------------------------------------------------------------------
(* ExecutionAgent.processIntent *)

\* The number of swaps among the first n recommendations
RECURSIVE SwapsIn(_, _)
SwapsIn(recs, n) == IF n = 0 THEN 0 ELSE SwapsIn(recs, n - 1) + (IF recs[n] = "swap" THEN 1 ELSE 0)

\* C29: ExecutionAgent.processIntent attempts every recommendation of the payload
\* exactly once and in order, a failing recommendation does not stop the later ones,
\* and the summary returned has total = successful + failed = number of recommendations.
C29_EveryRecommendationAttempted ==
    /\ (run.pc = "loop")
          => /\ run.idx <= Len(run.recs)
             /\ Len(run.results) = run.idx - 1
    /\ (run.pc \in {"loop", "done"})
          => /\ \A i \in DOMAIN run.results : run.results[i].recommendation = run.recs[i]
             /\ run.calls = SwapsIn(run.recs, Len(run.results))
    /\ (run.pc = "done")
          => /\ Len(run.results) = Len(run.recs)
             /\ run.summary.total = Len(run.recs)
             /\ run.summary.successful + run.summary.failed = run.summary.total
             /\ run.summary.failed = Cardinality({i \in DOMAIN run.results : ~run.results[i].success})

\* C29 witness: the first recommendation failed, the second was attempted and succeeded
C29_Witness ==
    /\ run.pc = "done"
    /\ run.recs = <<"vote", "swap">>
    /\ ~run.results[1].success
    /\ run.results[2].success
    /\ run.calls = 1
    /\ run.summary = [total |-> 2, successful |-> 1, failed |-> 1]

====
